---------------------------- MODULE Spec2Model ----------------------------
(***************************************************************************)
(* A model of FFBP/vis_utils.py: the layer viewer view_layers, its grid    *)
(* builder _make_axes_grid, its run-log dropdown _make_logs_widget and the *)
(* redraw callback _draw_layers that ipywidgets' interactive_output calls  *)
(* after every change of a control.                                        *)
(*                                                                         *)
(* Strings the code inspects (file names, paths) are sequences of          *)
(* one-character strings.  An ndarray is a record [shape, el]: shape is    *)
(* the tuple of its dimensions, el maps every 0-based index tuple to the   *)
(* element there.  A logged element is a tag <<path, step, layer, key,     *)
(* index>> naming where in the log it was stored; a placeholder element    *)
(* (np.zeros) is 0.                                                        *)
(***************************************************************************)
EXTENDS Integers, Sequences, FiniteSets, TLC

\* ------------------------------------------------------------------ bounds
\* Longest directory listing.
MaxEntries == 2
\* Snapshots (steps) of the longest run log.
MaxSteps == 2
\* Patterns of the largest test set.
MaxPatterns == 2
\* Units of the network whose runs are logged: input, hidden, output.
NumInputs == 2
NumHidden == 3
NumOutputs == 1

\* ------------------------------------------------------------ numpy arrays
Reverse(s) == [i \in 1..Len(s) |-> s[Len(s) + 1 - i]]

RECURSIVE Indices(_)
Indices(shape) ==
    IF shape = <<>> THEN {<<>>}
    ELSE {<<i>> \o r : i \in 0..(shape[1] - 1), r \in Indices(Tail(shape))}

ndim(a) == Len(a.shape)

\* np.zeros(dims)
Zeros(dims) == [shape |-> dims, el |-> [idx \in Indices(dims) |-> 0]]

\* a.T: every axis reversed.
Transpose(a) ==
    [shape |-> Reverse(a.shape),
     el    |-> [idx \in Indices(Reverse(a.shape)) |-> a.el[Reverse(idx)]]]

\* np.expand_dims(a, axis=1): a new axis of length 1 at position 1.
ExpandDims1(a) ==
    LET sh == <<a.shape[1], 1>> \o Tail(a.shape)
    IN  [shape |-> sh,
         el    |-> [idx \in Indices(sh) |-> a.el[<<idx[1]>> \o Tail(Tail(idx))]]]

\* a[i] for 0 <= i < a.shape[0] (an index past the axis raises IndexError).
Take(a, i) ==
    [shape |-> Tail(a.shape),
     el    |-> [idx \in Indices(Tail(a.shape)) |-> a.el[<<i>> \o idx]]]

Elements(a) == {a.el[idx] : idx \in DOMAIN a.el}

\* ------------------------------------------------------------------- paths
PKL == <<".", "p", "k", "l">>

\* sub in s, for Python strings.
Contains(sub, s) ==
    \E i \in 1..(Len(s) - Len(sub) + 1) : SubSeq(s, i, i + Len(sub) - 1) = sub

\* os.path.join(a, b) for a relative b, as os.listdir returns them.
joinp(a, b) ==
    IF a = <<>> \/ a[Len(a)] = "/" THEN a \o b ELSE a \o <<"/">> \o b

RECURSIVE Basename(_)
Basename(p) ==
    IF \E i \in 1..Len(p) : p[i] = "/"
    THEN Basename(SubSeq(p, (CHOOSE i \in 1..Len(p) : p[i] = "/") + 1, Len(p)))
    ELSE p

\* ---------------------------------------------------------------- the logs
\* The directory entries the model draws listings from.
FileA == <<"a", ".", "p", "k", "l">>
FileB == <<"b", ".", "p", "k", "l", "~">>
FileN == <<"n", "p", "k", "l">>
EntryNames == {FileA, FileB, FileN}

LogPaths == {<<"d">>, <<"d", "/">>}

\* The stored formats of a log: the number of dimensions of 'weights', of the
\* weight gradients and of the bias-like tensors.
Formats == [w : {2, 3}, gw : {2, 3}, b : {1, 2}]

\* load_test_data(runlog_path): the list of snapshots.  Run a holds MaxSteps
\* snapshots of MaxPatterns patterns, run b one snapshot of one pattern.
NumSnapshots(path) == IF Basename(path) = FileB THEN 1 ELSE MaxSteps
NumPatterns(path, tind) == IF Basename(path) = FileB THEN 1 ELSE MaxPatterns

\* snap['enum'] of snapshot tind: run b was first tested at epoch 5.
Enum(path, tind) == IF Basename(path) = FileB THEN 5 * (tind + 1) ELSE tind

\* get_epochs(runlog_path)
get_epochs(path) == [i \in 1..NumSnapshots(path) |-> Enum(path, i - 1)]

\* get_pattern_options(runlog_path, tind): one label per pattern.
get_pattern_options(path, tind) == [i \in 1..NumPatterns(path, tind) |-> i - 1]

\* get_layer_names(runlog_path)
get_layer_names(path) == <<"hidden", "output">>

\* get_layer_dims(runlog_path, layer_names)[layer_name]: <<inp_size, layer_size>>
get_layer_dims(path, layer_name) ==
    IF layer_name = "hidden" THEN <<NumInputs, NumHidden>>
    ELSE <<NumHidden, NumOutputs>>

WeightLike == {"weights", "gweights", "sgweights"}
BiasLike == {"biases", "gbiases", "sgbiases"}

\* The shape snapshot tind of a log in format f stores under layer_name, k.
LoggedShape(f, path, tind, layer_name, k) ==
    LET inp == get_layer_dims(path, layer_name)[1]
        size == get_layer_dims(path, layer_name)[2]
        P == NumPatterns(path, tind)
        nd == IF k = "weights" THEN f.w ELSE f.gw
    IN  IF k \in WeightLike
        THEN (IF nd = 3 THEN <<P>> ELSE <<>>) \o <<inp, size>>
        ELSE IF k \in BiasLike
        THEN (IF f.b = 2 THEN <<P>> ELSE <<>>) \o <<size>>
        ELSE IF k = "input_" THEN <<P, 1, inp>>
        ELSE <<P, 1, size>>

\* snap[layer_name][k] of snapshot tind.
Logged(f, path, tind, layer_name, k) ==
    LET sh == LoggedShape(f, path, tind, layer_name, k)
    IN  [shape |-> sh,
         el    |-> [idx \in Indices(sh) |-> <<path, tind, layer_name, k, idx>>]]

\* snap['target'] of snapshot tind: one row per pattern.
LoggedTarget(f, path, tind) ==
    LET sh == <<NumPatterns(path, tind), 1, NumOutputs>>
    IN  [shape |-> sh,
         el    |-> [idx \in Indices(sh) |-> <<path, tind, "", "target", idx>>]]


\* ------------------------------------------------------- _make_logs_widget
\* The Dropdown over the '.pkl' entries of the listing.  created names the
\* widgets built before the function returned or raised.
\* (Variant: 'pkl' in filename.)
pkl_no_dot(entries) == SelectSeq(entries, LAMBDA n : Contains(Tail(PKL), n))

\* Line 46: the entries whose name contains '.pkl', in listing order.
pkl_filenames(entries) == SelectSeq(entries, LAMBDA n : Contains(PKL, n))

\* (Variant: the Dropdown built before filenames[0] is looked up.)
make_logs_widget_eager(path, entries) ==
    LET filenames == pkl_filenames(entries)
        runlogs == [n \in {filenames[i] : i \in 1..Len(filenames)} |-> joinp(path, n)]
    IN  IF filenames = <<>>
        THEN [raised |-> "IndexError", created |-> {"run_widget"}, widget |-> <<>>]
        ELSE [raised |-> "",
              created |-> {"run_widget"},
              widget |-> [options |-> runlogs, value |-> runlogs[filenames[1]]]]

make_logs_widget(path, entries) ==
    LET filenames == pkl_filenames(entries)
        runlogs == [n \in {filenames[i] : i \in 1..Len(filenames)} |-> joinp(path, n)]
    IN  IF filenames = <<>>
        THEN [raised |-> "IndexError", created |-> {}, widget |-> <<>>]
        ELSE [raised |-> "",
              created |-> {"run_widget"},
              widget |-> [options |-> runlogs, value |-> runlogs[filenames[1]]]]

\* --------------------------------------------------------- _make_axes_grid
\* Scaled(x), in tenths: Scaled(.8) is Scaled(8) here.
PadTenths == 8
Scaled(tenths) == [scaled |-> tenths]

Ax(k, nx, ny, dims, title) ==
    [k |-> k, nx |-> nx, ny |-> ny, dims |-> dims, title |-> title]

\* imshow(np.zeros(img_dims)) with matplotlib's defaults.
Placeholder(k, dims) ==
    [k |-> k, data |-> Zeros(dims), cmap |-> "viridis", vmin |-> 0, vmax |-> 0]

\* Lines 100 and 109: the modes that add the gradient images and the
\* cumulative-gradient images.
ShowGradients(mode_) == mode_ > 0

\* (Variant: the cumulative images from mode 1 on.)
ShowCumulative_from1(mode_) == mode_ > 0
ShowCumulative(mode_) == mode_ > 1

\* Lines 103-112: the column of a right-panel image, n without targets.
\* (Variant: the targets' padding column not counted.)
GradCol_unshifted(n, t) == n + t
GradCol(n, t) == n + 2 * t

\* The grid of one layer: the divider's columns and rows, the axes' grid
\* coordinates (ax_params, in insertion order) and the images (img_dict).
make_axes_grid(inp_size, layer_size, mode_, target) ==
    LET t == IF target THEN 1 ELSE 0
        ff == <<Ax("input_", 0, 0, <<1, inp_size>>, "input"),
                Ax("weights", 0, 2, <<layer_size, inp_size>>, "W"),
                Ax("biases", 2, 2, <<layer_size, 1>>, "b"),
                Ax("net_input", 4, 2, <<layer_size, 1>>, "net"),
                Ax("output", 6, 2, <<layer_size, 1>>, "a")>>
        tg == IF t = 1 THEN <<Ax("targets", 8, 2, <<layer_size, 1>>, "t")>> ELSE <<>>
        pad == Scaled(PadTenths)
        mat_w == Scaled(10 * inp_size)
        cvec_w == Scaled(10)
        left_panel == <<mat_w, pad, cvec_w, pad, cvec_w, pad, cvec_w, pad>>
        cols0 == IF target THEN left_panel \o <<cvec_w, pad>> ELSE left_panel
        right1 == <<pad, mat_w, pad, cvec_w, pad, cvec_w, pad, cvec_w>>
        gax == <<Ax("gweights", GradCol(9, t), 2, <<layer_size, inp_size>>, "W'"),
                 Ax("gbiases", GradCol(11, t), 2, <<layer_size, 1>>, "b'"),
                 Ax("gnet_input", GradCol(13, t), 2, <<layer_size, 1>>, "net'"),
                 Ax("goutput", GradCol(15, t), 2, <<layer_size, 1>>, "a'")>>
        sgax == <<Ax("sgweights", GradCol(17, t), 2, <<layer_size, inp_size>>, "sW'"),
                  Ax("sgbiases", GradCol(19, t), 2, <<layer_size, 1>>, "sb'")>>
        right_panel == IF ShowCumulative(mode_)
                       THEN right1 \o <<pad, mat_w, pad, cvec_w>> ELSE right1
        ax_params == ff \o tg \o (IF ShowGradients(mode_) THEN gax ELSE <<>>)
                        \o (IF ShowGradients(mode_) /\ ShowCumulative(mode_)
                            THEN sgax ELSE <<>>)
        mat_h == Scaled(10 * layer_size)
        rvec_h == Scaled(10)
    IN  [cols |-> IF ShowGradients(mode_) THEN cols0 \o right_panel ELSE cols0,
         rows |-> <<rvec_h, pad, mat_h>>,
         ax_params |-> ax_params,
         img_dict |-> [j \in 1..Len(ax_params) |->
                          Placeholder(ax_params[j].k, ax_params[j].dims)]]

\* ------------------------------------------------------------ _draw_layers
\* snap_ldicts[layer_name][k]: 'targets' is the snapshot's target.
SnapEntry(f, path, tind, layer_name, k) ==
    IF k = "targets" THEN LoggedTarget(f, path, tind)
    ELSE Logged(f, path, tind, layer_name, k)

\* Lines 166-169: the transpose of 'weights' and the new axis of a key that
\* contains 'biases' (of the keys of an img_dict: the bias-like ones).
\* (Variant: 'weights' not transposed.)
Prepared_untransposed(data, k) ==
    IF k \in BiasLike THEN ExpandDims1(data) ELSE data
Prepared(data, k) ==
    LET d1 == IF k = "weights" THEN Transpose(data) ELSE data
    IN  IF k \in BiasLike THEN ExpandDims1(d1) ELSE d1

\* Lines 170-173 raise IndexError when pind is past the first axis.
CanSlice(data, k, pind) ==
    ndim(Prepared(data, k)) > 2 => pind < Prepared(data, k).shape[1]

\* The array handed to img.set_data.
\* (Variant: the slice of the first pattern whatever pind.)
Shown_first(data, k, pind) ==
    LET d2 == Prepared(data, k)
        d3 == Take(d2, 0)
    IN  IF ndim(d2) > 2
        THEN (IF k # "input_" THEN Transpose(d3) ELSE d3)
        ELSE d2
Shown(data, k, pind) ==
    LET d2 == Prepared(data, k)
        d3 == Take(d2, pind)
    IN  IF ndim(d2) > 2
        THEN (IF k # "input_" THEN Transpose(d3) ELSE d3)
        ELSE d2

\* AxesImage.set_data takes a 2-D array (or an RGB(A) one).
CanSetData(a) == ndim(a) = 2 \/ (ndim(a) = 3 /\ a.shape[3] \in {3, 4})

CanDraw(data, k, pind) == CanSlice(data, k, pind) /\ CanSetData(Shown(data, k, pind))

\* The images after _draw_layers, whether it returned (completed) or raised,
\* and the positions <<layer, image>> of the images whose set_data it called:
\* an exception leaves the images before the failing one redrawn and the
\* others as they were.  Line 149 raises IndexError on a step index past the
\* snapshots and line 152 on a pattern index past snap['loss'], both before
\* any image is touched.
draw_layers(f, runlog_path, imgs, names, colormap, vrange, tind, pind) ==
    IF tind >= NumSnapshots(runlog_path) \/ pind >= NumPatterns(runlog_path, tind)
    THEN [completed |-> FALSE, set_data |-> {}, img_dicts |-> imgs]
    ELSE LET entry(i, j) == SnapEntry(f, runlog_path, tind, names[i], imgs[i][j].k)
             all == UNION {{<<i, j>> : j \in 1..Len(imgs[i])} : i \in 1..Len(imgs)}
             bad == {p \in all : ~CanDraw(entry(p[1], p[2]), imgs[p[1]][p[2]].k, pind)}
             reached(i, j) ==
                 \A p \in bad : p[1] > i \/ (p[1] = i /\ p[2] > j)
         IN  [completed |-> bad = {},
              set_data |-> {p \in all : reached(p[1], p[2])},
              img_dicts |->
                  [i \in 1..Len(imgs) |->
                      [j \in 1..Len(imgs[i]) |->
                          IF reached(i, j)
                          THEN [k |-> imgs[i][j].k,
                                data |-> Shown(entry(i, j), imgs[i][j].k, pind),
                                cmap |-> colormap,
                                vmin |-> vrange[1],
                                vmax |-> vrange[2]]
                          ELSE imgs[i][j]]]]

\* ------------------------------------------------------------- view_layers
VARIABLES
    log_path,       \* view_layers' argument: the log directory
    listing,        \* os.listdir(log_path)
    mode,           \* view_layers' argument
    fmt,            \* the format the logs of the directory are stored in
    pc,             \* "start", then "ready" (view_layers returned) or "raised"
    created,        \* the objects view_layers has created
    widgets_,       \* controls_dict: the five controls
    grids,          \* per layer, the divider's columns, rows and axes
    img_dicts,      \* axes_dicts: per layer, the images in img_dict order
    last_call,      \* the latest call of _draw_layers: arguments and outcome
    all_completed   \* every call of _draw_layers so far returned

vars == <<log_path, listing, mode, fmt, pc, created, widgets_, grids, img_dicts,
          last_call, all_completed>>

env == <<log_path, listing, mode, fmt>>

Range(f) == {f[x] : x \in DOMAIN f}

\* Directory listings: entries with distinct names.
Listings ==
    {s \in UNION {[1..n -> EntryNames] : n \in 0..MaxEntries} :
        \A i, j \in 1..Len(s) : i # j => s[i] # s[j]}

\* The colormaps of cmap_widget (sorted() puts capitals first).
CmapOptions ==
    <<"BrBG", "PRGn", "PiYG", "PuOr", "RdBu", "RdGy", "RdYlBu", "RdYlGn",
      "bwr", "coolwarm", "seismic">>

\* The selections the model makes in cmap_widget and vrange_widget.
CmapChoices == {"coolwarm", "bwr"}
VrangeChoices == {<<-1, 1>>, <<-5, 5>>}

\* A bounded slider keeps its value within min..max.
Clamp(v, lo, hi) == IF v > hi THEN hi ELSE IF v < lo THEN lo ELSE v

\* Before view_layers is called.
NotStarted ==
    /\ pc = "start"
    /\ created = {}
    /\ widgets_ = <<>>
    /\ grids = <<>>
    /\ img_dicts = <<>>
    /\ last_call = <<>>
    /\ all_completed = TRUE

\* A session in the mode that shows every image, on a directory that holds
\* both runs, in two of the formats.
SessionListings == {<<FileA, FileB>>, <<FileB, FileA>>}
SessionFormats == {[w |-> 2, gw |-> 3, b |-> 1], [w |-> 3, gw |-> 3, b |-> 2]}

Init ==
    /\ log_path = <<"d">>
    /\ listing \in SessionListings
    /\ mode = 2
    /\ fmt \in SessionFormats
    /\ NotStarted

\* Any call of view_layers.
InitView ==
    /\ log_path \in LogPaths
    /\ listing \in Listings
    /\ mode \in 0..2
    /\ fmt \in Formats
    /\ NotStarted

\* A directory that holds run a alone, in any format.
InitDraw ==
    /\ log_path = <<"d">>
    /\ listing = <<FileA>>
    /\ mode \in 0..2
    /\ fmt \in Formats
    /\ NotStarted

\* interactive_output's observer: _draw_layers on the controls' values.
\* (Variant: the pattern control not among the controls.)
Redraw_unwired(w, imgs) ==
    draw_layers(fmt, w.runlog_path.value, imgs, get_layer_names(w.runlog_path.value),
                w.colormap.value, w.vrange.value, w.tind.value, 0)
Redraw(w, imgs) ==
    draw_layers(fmt, w.runlog_path.value, imgs, get_layer_names(w.runlog_path.value),
                w.colormap.value, w.vrange.value, w.tind.value, w.pind.value)

CallOf(w, r) ==
    [runlog_path |-> w.runlog_path.value, colormap |-> w.colormap.value,
     vrange |-> w.vrange.value, tind |-> w.tind.value, pind |-> w.pind.value,
     completed |-> r.completed, set_data |-> r.set_data]

\* Lines 193-293 once _make_logs_widget has returned run_widget.
Build(run_widget) ==
    LET runlog_path == run_widget.value
        epochs == get_epochs(runlog_path)
        layer_names == get_layer_names(runlog_path)
        num_layers == Len(layer_names)
        grid(i) ==
            make_axes_grid(get_layer_dims(runlog_path, layer_names[i])[1],
                           get_layer_dims(runlog_path, layer_names[i])[2],
                           mode, i = num_layers)
        step_widget == [value |-> Clamp(epochs[1], 0, Len(epochs) - 1),
                        min |-> 0, max |-> Len(epochs) - 1]
        pattern_options == get_pattern_options(runlog_path, step_widget.value)
        options_map == [o \in Range(pattern_options) |->
                           (CHOOSE i \in 1..Len(pattern_options) :
                                pattern_options[i] = o) - 1]
        w == [runlog_path |-> run_widget,
              colormap |-> [options |-> CmapOptions, value |-> "coolwarm"],
              vrange |-> [value |-> <<-1, 1>>, min |-> -5, max |-> 5],
              tind |-> step_widget,
              pind |-> [options |-> options_map, value |-> 0]]
        axes_dicts == [i \in 1..num_layers |-> grid(i).img_dict]
        first == Redraw(w, axes_dicts)
    IN  /\ widgets_' = w
        /\ grids' = [i \in 1..num_layers |->
                        [cols |-> grid(i).cols, rows |-> grid(i).rows,
                         ax_params |-> grid(i).ax_params]]
        /\ img_dicts' = first.img_dicts
        /\ last_call' = CallOf(w, first)
        /\ all_completed' = first.completed
        /\ created' = {"layout", "figure", "axes", "cmap_widget", "vrange_widget",
                       "step_widget", "pattern_widget", "controls_panel",
                       "callback"} \cup make_logs_widget(log_path, listing).created

view_layers ==
    /\ pc = "start"
    /\ LET r == make_logs_widget(log_path, listing)
       IN  IF r.raised # ""
           THEN /\ pc' = "raised"
                /\ created' = {"layout"} \cup r.created
                /\ UNCHANGED <<widgets_, grids, img_dicts, last_call, all_completed>>
           ELSE /\ pc' = "ready"
                /\ Build(r.widget)
    /\ UNCHANGED env

\* A control takes a new value and the observer redraws.
Change(w) ==
    LET r == Redraw(w, img_dicts)
    IN  /\ widgets_' = w
        /\ img_dicts' = r.img_dicts
        /\ last_call' = CallOf(w, r)
        /\ all_completed' = (all_completed /\ r.completed)
        /\ UNCHANGED <<env, pc, created, grids>>

SelectRunlog ==
    /\ pc = "ready"
    /\ \E v \in Range(widgets_.runlog_path.options) :
        /\ v # widgets_.runlog_path.value
        /\ Change([widgets_ EXCEPT !.runlog_path.value = v])

SelectColormap ==
    /\ pc = "ready"
    /\ \E v \in CmapChoices \cap Range(widgets_.colormap.options) :
        /\ v # widgets_.colormap.value
        /\ Change([widgets_ EXCEPT !.colormap.value = v])

SlideVrange ==
    /\ pc = "ready"
    /\ \E v \in VrangeChoices :
        /\ widgets_.vrange.min <= v[1] /\ v[1] <= v[2] /\ v[2] <= widgets_.vrange.max
        /\ v # widgets_.vrange.value
        /\ Change([widgets_ EXCEPT !.vrange.value = v])

SlideStep ==
    /\ pc = "ready"
    /\ \E v \in widgets_.tind.min..widgets_.tind.max :
        /\ v # widgets_.tind.value
        /\ Change([widgets_ EXCEPT !.tind.value = v])

SelectPattern ==
    /\ pc = "ready"
    /\ \E v \in Range(widgets_.pind.options) :
        /\ v # widgets_.pind.value
        /\ Change([widgets_ EXCEPT !.pind.value = v])

Next ==
    \/ view_layers
    \/ SelectRunlog
    \/ SelectColormap
    \/ SlideVrange
    \/ SlideStep
    \/ SelectPattern

Spec == Init /\ [][Next]_vars

\* The construction alone, on every input.
NextView == view_layers
SpecView == InitView /\ [][NextView]_vars

\* Scrubbing through the steps and patterns of one run log.
NextDraw ==
    \/ view_layers
    \/ SlideStep
    \/ SelectPattern
SpecDraw == InitDraw /\ [][NextDraw]_vars

\* ------------------------------------------------------------- properties
Positions == UNION {{<<i, j>> : j \in 1..Len(img_dicts[i])} : i \in 1..Len(img_dicts)}

LayerName(i) == get_layer_names(last_call.runlog_path)[i]

\* The tensor the snapshot of the given run log and step logs for image p.
LoggedFor(path, tind, p) ==
    SnapEntry(fmt, path, tind, LayerName(p[1]), img_dicts[p[1]][p[2]].k)

\* C1: once view_layers has returned, and as long as every redraw has
\* completed, each image of each layer holds the array _draw_layers derives
\* from the snapshot the run-log and step controls select, at the pattern the
\* pattern control selects, every element of it logged in that snapshot, and
\* carries the colormap control's value as cmap and the value-range control's
\* ends as vmin and vmax: the display is a function of the controls' values.
C1_DisplayFollowsControls ==
    (pc = "ready" /\ all_completed) =>
        \A p \in Positions :
            LET img == img_dicts[p[1]][p[2]]
                run == widgets_.runlog_path.value
                tind == widgets_.tind.value
                logged == LoggedFor(run, tind, p)
            IN  /\ img.data = Shown(logged, img.k, widgets_.pind.value)
                /\ Elements(img.data) \subseteq Elements(logged)
                /\ img.cmap = widgets_.colormap.value
                /\ img.vmin = widgets_.vrange.value[1]
                /\ img.vmax = widgets_.vrange.value[2]

\* C1's case: the second run log of the listing selected, colormap and value
\* range changed, every redraw completed.
C1_Witness ==
    /\ pc = "ready"
    /\ all_completed
    /\ widgets_.runlog_path.value = joinp(log_path, listing[2])
    /\ widgets_.colormap.value = "bwr"
    /\ widgets_.vrange.value = <<-5, 5>>

\* C2: every call of _draw_layers gets a step index below the number of
\* snapshots of the run log it is called with, and a pattern index below the
\* number of patterns of that snapshot.
C2_ArgsInRange ==
    pc = "ready" =>
        /\ 0 <= last_call.tind
        /\ last_call.tind < NumSnapshots(last_call.runlog_path)
        /\ 0 <= last_call.pind
        /\ last_call.pind < NumPatterns(last_call.runlog_path, last_call.tind)

\* The keys of the images of layer i.
Keys(i) == {img_dicts[i][j].k : j \in 1..Len(img_dicts[i])}

Feedforward == {"input_", "weights", "biases", "net_input", "output"}
Gradients == {"gweights", "gbiases", "gnet_input", "goutput"}
Cumulative == {"sgweights", "sgbiases"}

\* C3: the images of a layer are, one each, the feedforward ones in mode 0,
\* those and the gradient ones in mode 1, those and the cumulative-gradient
\* ones in mode 2, and 'targets' exactly for the layer built with target true
\* (the last one).
C3_ModeSelectsImages ==
    pc = "ready" =>
        \A i \in 1..Len(img_dicts) :
            /\ Cardinality(Keys(i)) = Len(img_dicts[i])
            /\ Keys(i) \ {"targets"} =
                   Feedforward
                   \cup (IF mode >= 1 THEN Gradients ELSE {})
                   \cup (IF mode >= 2 THEN Cumulative ELSE {})
            /\ ("targets" \in Keys(i)) <=> (i = Len(img_dicts))

\* C3's case: mode 1, where the gradient images are built and the
\* cumulative ones are not.
C3_Witness ==
    /\ pc = "ready"
    /\ mode = 1
    /\ "gweights" \in Keys(1)
    /\ "targets" \in Keys(2)

\* The image at position p, its key, and the tensor the latest call of
\* _draw_layers read for it.
ImageAt(p) == img_dicts[p[1]][p[2]]
KeyAt(p) == img_dicts[p[1]][p[2]].k
LastLogged(p) == LoggedFor(last_call.runlog_path, last_call.tind, p)

Rows(a) == 0..(a.shape[1] - 1)
Columns(a) == 0..(a.shape[2] - 1)

\* shown is the transpose of the matrix m.
IsTransposeOf(shown, m) ==
    /\ shown.shape = <<m.shape[2], m.shape[1]>>
    /\ \A i \in Rows(shown), j \in Columns(shown) :
           shown.el[<<i, j>>] = m.el[<<j, i>>]

\* shown is the slice of the 3-D tensor a at index n of its first axis.
IsSliceOf(shown, a, n) ==
    /\ shown.shape = <<a.shape[2], a.shape[3]>>
    /\ \A i \in Rows(shown), j \in Columns(shown) :
           shown.el[<<i, j>>] = a.el[<<n, i, j>>]

\* shown is the transpose of that slice.
IsTransposedSliceOf(shown, a, n) ==
    /\ shown.shape = <<a.shape[3], a.shape[2]>>
    /\ \A i \in Rows(shown), j \in Columns(shown) :
           shown.el[<<i, j>>] = a.el[<<n, j, i>>]

IsColumn(shown) == ndim(shown) = 2 /\ shown.shape[2] = 1

\* What C4 says of every key: elements of the logged tensor only, 'weights'
\* the transpose of the logged matrix, a bias-like key a single column.
C4_Common(p) ==
    LET shown == ImageAt(p).data
        logged == LastLogged(p)
    IN  /\ Elements(shown) \subseteq Elements(logged)
        /\ (KeyAt(p) = "weights" /\ ndim(logged) = 2) => IsTransposeOf(shown, logged)
        /\ KeyAt(p) \in BiasLike => IsColumn(shown)

\* What C4 says of a tensor of more than two dimensions.
C4_Sliced(p) ==
    LET shown == ImageAt(p).data
        logged == LastLogged(p)
    IN  ndim(logged) > 2 =>
            IF KeyAt(p) = "input_"
            THEN IsSliceOf(shown, logged, last_call.pind)
            ELSE IsTransposedSliceOf(shown, logged, last_call.pind)

\* C4 as claimed: every array the latest call of _draw_layers handed to
\* set_data holds elements of the logged tensor only, is the transpose of the
\* logged matrix for 'weights', a single column for a bias-like key, and for
\* a tensor of more than two dimensions its slice at pind, transposed unless
\* the key is 'input_'.
C4_Original ==
    pc = "ready" => \A p \in last_call.set_data : C4_Common(p) /\ C4_Sliced(p)

\* C4 as amended: as claimed for every key but 'weights' logged with three
\* dimensions, which is transposed before it is sliced, so that the latest
\* call handed over its slice at pind of the LAST axis: shown[p][i] =
\* logged[p][i][pind]; and a bias-like tensor stacked per pattern is shown as
\* the column of its row pind.
C4_ReshapeOnly ==
    pc = "ready" =>
        \A p \in last_call.set_data :
            LET shown == ImageAt(p).data
                logged == LastLogged(p)
            IN  /\ C4_Common(p)
                /\ KeyAt(p) # "weights" => C4_Sliced(p)
                /\ (KeyAt(p) = "weights" /\ ndim(logged) = 3) =>
                       /\ shown.shape = <<logged.shape[1], logged.shape[2]>>
                       /\ \A i \in Rows(shown), j \in Columns(shown) :
                              shown.el[<<i, j>>] = logged.el[<<i, j, last_call.pind>>]
                /\ (KeyAt(p) \in BiasLike /\ ndim(logged) = 2) =>
                       \A i \in Rows(shown) :
                           shown.el[<<i, 0>>] = logged.el[<<last_call.pind, i>>]

\* C4's case: 'weights' of the first layer logged with three dimensions and
\* handed over at the second pattern, with the gradients beside it.
C4_Witness ==
    /\ pc = "ready"
    /\ fmt.w = 3
    /\ mode = 2
    /\ last_call.pind = 1
    /\ <<1, 2>> \in last_call.set_data

\* C5: the dropdown's options are the entries of the listing whose name
\* contains '.pkl', no others, each mapped to the directory's path joined
\* with the name, and its value is the path of the first such entry.
C5_DropdownListsPkl ==
    pc = "ready" =>
        LET opts == widgets_.runlog_path.options
            pkl == {i \in 1..Len(listing) : Contains(PKL, listing[i])}
            first == CHOOSE i \in pkl : \A j \in pkl : i <= j
        IN  /\ DOMAIN opts = {listing[i] : i \in pkl}
            /\ \A n \in DOMAIN opts :
                   /\ opts[n] = joinp(log_path, n)
                   /\ Basename(opts[n]) = n
                   /\ SubSeq(opts[n], 1, 1) = SubSeq(log_path, 1, 1)
            /\ widgets_.runlog_path.value = opts[listing[first]]

\* C5's case: a listing that starts with an entry that is no run log.
C5_Witness ==
    /\ pc = "ready"
    /\ listing[1] = FileN
    /\ DOMAIN widgets_.runlog_path.options = {FileB}

\* C6: on a listing without any name that contains '.pkl', view_layers ends
\* raising, and has created no figure, axes, control or callback (the
\* widgets' Layout alone).
C6_NoLogsRaises ==
    (pc # "start" /\ \A i \in 1..Len(listing) : ~Contains(PKL, listing[i])) =>
        /\ pc = "raised"
        /\ created \subseteq {"layout"}
        /\ widgets_ = <<>>
        /\ grids = <<>>
        /\ img_dicts = <<>>
        /\ last_call = <<>>

\* C6's case: view_layers has raised on a directory that is not empty.
C6_Witness ==
    /\ pc = "raised"
    /\ listing = <<FileN>>

\* The placeholder's shape of image p.
DimsAt(p) == grids[p[1]].ax_params[p[2]].dims

InpSize(i) == get_layer_dims(last_call.runlog_path, LayerName(i))[1]
LayerSize(i) == get_layer_dims(last_call.runlog_path, LayerName(i))[2]

\* C7 as claimed: in every format, every array the latest call handed to
\* set_data has the shape of the placeholder of its image.
C7_Original ==
    pc = "ready" =>
        \A p \in last_call.set_data : ImageAt(p).data.shape = DimsAt(p)

\* C7 as amended: the shapes agree for 'weights' logged as a matrix, for
\* gweights and sgweights logged stacked per pattern, and for every other
\* key; 'weights' stacked per pattern is handed over as patterns x inp_size,
\* gweights and sgweights logged as a matrix as inp_size x layer_size.
C7_ShapesAgree ==
    pc = "ready" =>
        \A p \in last_call.set_data :
            LET shape == ImageAt(p).data.shape
                P == NumPatterns(last_call.runlog_path, last_call.tind)
            IN  /\ grids[p[1]].ax_params[p[2]].k = KeyAt(p)
                /\ IF KeyAt(p) = "weights" /\ fmt.w = 3
                   THEN shape = <<P, InpSize(p[1])>>
                   ELSE IF KeyAt(p) \in {"gweights", "sgweights"} /\ fmt.gw = 2
                   THEN shape = <<InpSize(p[1]), LayerSize(p[1])>>
                   ELSE shape = DimsAt(p)

\* C7's case: a completed redraw of the second pattern in the format in
\* which every shape agrees, bias-like tensors stacked.
C7_Witness ==
    /\ pc = "ready"
    /\ fmt = [w |-> 2, gw |-> 3, b |-> 2]
    /\ mode = 2
    /\ last_call.completed
    /\ last_call.pind = 1
    /\ last_call.tind = 1

\* The columns of the claim, left to right.
ColumnOrder ==
    <<"weights", "biases", "net_input", "output", "targets", "gweights",
      "gbiases", "gnet_input", "goutput", "sgweights", "sgbiases">>

\* The divider's column (0-based nx) of an axes.
ColumnOf(g, ax) == g.cols[ax.nx + 1]

\* C8: in the grid of every layer, every image's nx indexes a column of the
\* divider, no two images share a cell, the images run left to right in the
\* order weights, biases, net_input, output, (targets), gweights, gbiases,
\* gnet_input, goutput, (sgweights, sgbiases), a matrix image sits in a column
\* of width inp_size and a column-vector image (every key but input_ and the
\* matrices) in one of width 1, input_ sits under weights in the column of
\* width inp_size, and no image sits in a padding column.
C8_GridColumns ==
    pc = "ready" =>
        \A i \in 1..Len(grids) :
            LET g == grids[i]
                axs == {g.ax_params[j] : j \in 1..Len(g.ax_params)}
                at(k) == CHOOSE ax \in axs : ax.k = k
                keys == {ax.k : ax \in axs}
            IN  /\ \A ax \in axs : 0 <= ax.nx /\ ax.nx < Len(g.cols)
                /\ \A a, b \in axs : (a.nx = b.nx /\ a.ny = b.ny) => a = b
                /\ \A m, n \in 1..Len(ColumnOrder) :
                       (m < n /\ ColumnOrder[m] \in keys /\ ColumnOrder[n] \in keys)
                           => at(ColumnOrder[m]).nx < at(ColumnOrder[n]).nx
                /\ \A ax \in axs :
                       /\ ColumnOf(g, ax) # Scaled(PadTenths)
                       /\ ColumnOf(g, ax) =
                              IF ax.k \in WeightLike \cup {"input_"}
                              THEN Scaled(10 * InpSize(i)) ELSE Scaled(10)
                /\ at("input_").nx = at("weights").nx

\* C8's case: the widest grid, of mode 2 with targets.
C8_Witness ==
    /\ pc = "ready"
    /\ mode = 2
    /\ Len(grids[2].cols) = 22
    /\ \E j \in 1..Len(grids[2].ax_params) : grids[2].ax_params[j].k = "targets"

=============================================================================
